---- MODULE Spec2Model ----
(***************************************************************************)
(* Model of script.js: a webcam expression sampler (setInterval callback   *)
(* awaiting face-api), a cue emitter (triggerBeepForEmotion), and a p5     *)
(* renderer (setup / draw / windowResized / mousePressed).                 *)
(*                                                                         *)
(* Units.  Intensities are hundredths (0.9 is 90, the 0.2 threshold is 20).*)
(* Frequencies are milli-Hertz, amplitudes are 1/10000, brightness is in   *)
(* tenths, vertical positions and heights of cells are sevenths of a pixel *)
(* (rowHeight = height / 7).  All arithmetic is exact in these units; the  *)
(* IEEE-754 rounding of the JavaScript expressions is not modelled.        *)
(***************************************************************************)
EXTENDS Integers, Sequences, FiniteSets, TLC

VARIABLES
  cam,              \* camera start-up: "loading", "requesting", "stream", "failed"
  timers,           \* number of setInterval timers started by 'play' listeners
  ticksFired,       \* sampling callbacks started so far
  inflight,         \* sampling callbacks suspended at the await
  emotionHistory,   \* let emotionHistory = []
  audioInitialized, \* let audioInitialized = false
  cues,             \* oscillators created by triggerBeepForEmotion, in order
  setupDone,        \* p5 has run setup()
  innerWidth,       \* window.innerWidth
  innerHeight,      \* window.innerHeight
  canvasHeight,     \* let canvasHeight
  width,            \* p5 canvas width
  height,           \* p5 canvas height
  frame,            \* what the last draw() painted
  scrollX,          \* horizontal scroll position of the window
  awaiting,         \* SpecOrder only: the numbers of the callbacks at the await
  appendedBy        \* SpecOrder only: per Sample, the number of its callback

vars ==
  << cam, timers, ticksFired, inflight, emotionHistory, audioInitialized, cues,
     setupDone, innerWidth, innerHeight, canvasHeight, width, height, frame,
     scrollX, awaiting, appendedBy >>

\* The callbacks are numbered in the order they fire.  Spec and SpecCue count
\* the callbacks at the await (inflight) and leave the numbering at its
\* initial value; SpecOrder keeps it.
ids ==
  << awaiting, appendedBy >>

----------------------------------------------------------------------------
(* Bounds of the model *)

MaxTicks ==
  2

MaxInflight ==
  2

MaxTimers ==
  2

\* the viewport sizes the window takes: <<innerWidth, innerHeight>>
Viewports ==
  { <<10, 7>>, <<16, 14>> }

----------------------------------------------------------------------------
(* Program constants *)

EMOTIONS ==
  << "neutral", "happy", "sad", "angry", "fearful", "disgusted", "surprised" >>

Names ==
  { EMOTIONS[i] : i \in 1..Len(EMOTIONS) }

COL_WIDTH ==
  6

EMOTION_FREQS ==
  [ neutral |-> 220, happy |-> 880, sad |-> 260, angry |-> 440,
    fearful |-> 600, disgusted |-> 320, surprised |-> 700 ]

FALLBACK_FREQ ==
  440

\* bestVal > 0.2, in hundredths
BEEP_THRESHOLD ==
  20

Max(a, b) ==
  IF a >= b THEN a ELSE b

----------------------------------------------------------------------------
(* The Expression Source: what `await detectSingleFace(..).withFaceExpressions()` *)
(* can produce.  expressions is a partial map: a label outside its DOMAIN  *)
(* is absent from the raw detection result.                                *)

Throws ==
  [ kind |-> "throw", expressions |-> << >> ]

NoFace ==
  [ kind |-> "noface", expressions |-> << >> ]

NoExpressions ==
  [ kind |-> "noexpr", expressions |-> << >> ]

Detected(e) ==
  [ kind |-> "face", expressions |-> e ]

Happy90 ==
  Detected([ n \in Names |-> IF n = "happy" THEN 90 ELSE 0 ])

TieSadAngry ==
  Detected([ n \in {"sad", "angry"} |-> 50 ])

Low15 ==
  Detected([ n \in {"neutral", "happy"} |-> IF n = "neutral" THEN 15 ELSE 10 ])

Exactly20 ==
  Detected([ n \in {"fearful"} |-> 20 ])

Surprised100 ==
  Detected([ n \in {"surprised", "disgusted"} |-> IF n = "surprised" THEN 100 ELSE 0 ])

RawResults ==
  { Throws, NoFace, NoExpressions, Happy90, TieSadAngry, Low15, Exactly20,
    Surprised100 }

FailResults ==
  { Throws, NoFace, NoExpressions }

\* the values of the one-tick specification's raw results
WideValues ==
  { 21, 90 }

----------------------------------------------------------------------------
(* The sampling callback's pure parts *)

\* the value of bestName before any label has been selected
Null ==
  "null"

\* obj[name] || 0 : an absent (undefined) or zero entry reads as 0
OrZero(obj, name) ==
  IF name \in DOMAIN obj /\ obj[name] # 0 THEN obj[name] ELSE 0

\* snapshot[name] = v
Put(snapshot, name, v) ==
  [ n \in (DOMAIN snapshot) \cup {name} |-> IF n = name THEN v ELSE snapshot[n] ]

\* EMOTIONS.forEach(name => { snapshot[name] = detection.expressions[name] || 0 })
RECURSIVE FillFrom(_, _, _)
FillFrom(snapshot, expressions, i) ==
  IF i > Len(EMOTIONS) THEN snapshot
  ELSE FillFrom(Put(snapshot, EMOTIONS[i], OrZero(expressions, EMOTIONS[i])),
                expressions, i + 1)

\* EMOTIONS.forEach(name => { snapshot[name] = 0 })
RECURSIVE FillZeros(_, _)
FillZeros(snapshot, i) ==
  IF i > Len(EMOTIONS) THEN snapshot
  ELSE FillZeros(Put(snapshot, EMOTIONS[i], 0), i + 1)

\* mutant: the raw expressions object is stored as it is, nothing defaulted
SnapshotOf_NoDefault(r) ==
  IF r.kind = "face" THEN r.expressions ELSE FillZeros(<< >>, 1)

\* mutant: the catch block leaves the snapshot empty
SnapshotOf_ThrowEmpty(r) ==
  IF r.kind = "face" THEN FillFrom(<< >>, r.expressions, 1)
  ELSE IF r.kind = "throw" THEN << >> ELSE FillZeros(<< >>, 1)

\* let snapshot = {}; try { ... } catch (e) { ... } : the Sample of a raw result
SnapshotOf(r) ==
  IF r.kind = "face" THEN FillFrom(<< >>, r.expressions, 1)
  ELSE FillZeros(<< >>, 1)

\* mutant: the history keeps the newest Sample only
Push_Replace(history, snapshot) ==
  << snapshot >>

\* mutant: the Sample is put in front (unshift)
Push_Front(history, snapshot) ==
  << snapshot >> \o history

\* emotionHistory.push(snapshot)
Push(history, snapshot) ==
  Append(history, snapshot)

\* for (const name of EMOTIONS) { const v = snapshot[name] || 0; if (v > bestVal) ... }
RECURSIVE BestFrom(_, _, _, _)
BestFrom(snapshot, i, bestName, bestVal) ==
  IF i > Len(EMOTIONS) THEN [ name |-> bestName, val |-> bestVal ]
  ELSE LET v == OrZero(snapshot, EMOTIONS[i])
       IN  IF v > bestVal THEN BestFrom(snapshot, i + 1, EMOTIONS[i], v)
           ELSE BestFrom(snapshot, i + 1, bestName, bestVal)

\* mutant: the comparison is v >= bestVal, so the last maximum wins
RECURSIVE BestFrom_Last(_, _, _, _)
BestFrom_Last(snapshot, i, bestName, bestVal) ==
  IF i > Len(EMOTIONS) THEN [ name |-> bestName, val |-> bestVal ]
  ELSE LET v == OrZero(snapshot, EMOTIONS[i])
       IN  IF v >= bestVal THEN BestFrom_Last(snapshot, i + 1, EMOTIONS[i], v)
           ELSE BestFrom_Last(snapshot, i + 1, bestName, bestVal)

Dominant_Last(snapshot) ==
  BestFrom_Last(snapshot, 1, Null, 0)

Dominant(snapshot) ==
  BestFrom(snapshot, 1, Null, 0)

\* mutant: the threshold test is bestVal >= 0.2
ShouldBeep_Geq(best) ==
  best.name # Null /\ best.val >= BEEP_THRESHOLD

\* if (bestName && bestVal > 0.2)
ShouldBeep(best) ==
  best.name # Null /\ best.val > BEEP_THRESHOLD

\* EMOTION_FREQS[name] || 440
BaseFreq(name) ==
  IF name \in DOMAIN EMOTION_FREQS /\ EMOTION_FREQS[name] # 0
  THEN EMOTION_FREQS[name] ELSE FALLBACK_FREQ

\* mutant: the parentheses are missing, baseFreq * 0.8 + intensity * 0.4
BeepFreq_Precedence(name, intensity) ==
  BaseFreq(name) * 800 + intensity * 400

\* baseFreq * (0.8 + intensity * 0.4), in milli-Hertz
BeepFreq(name, intensity) ==
  BaseFreq(name) * (800 + intensity * 4)

\* 0.05 + intensity * 0.25, in 1/10000
BeepAmp(intensity) ==
  500 + intensity * 25

\* mutant: no test of audioInitialized
triggerBeepForEmotion_NoGate(oscs, unlocked, name, intensity) ==
  Append(oscs, [ name |-> name, intensity |-> intensity,
                 freq |-> BeepFreq(name, intensity),
                 amp |-> BeepAmp(intensity) ])

\* triggerBeepForEmotion(name, intensity): the oscillators after the call
triggerBeepForEmotion(oscs, unlocked, name, intensity) ==
  IF ~unlocked THEN oscs
  ELSE Append(oscs, [ name |-> name, intensity |-> intensity,
                      freq |-> BeepFreq(name, intensity),
                      amp |-> BeepAmp(intensity) ])

\* the cue step of the callback, for the Sample just pushed
\* mutant: the callback ends after the push
CueStep_Skip(oscs, unlocked, snapshot) ==
  oscs

CueStep(oscs, unlocked, snapshot) ==
  LET best == Dominant(snapshot)
  IN  IF ShouldBeep(best)
      THEN triggerBeepForEmotion(oscs, unlocked, best.name, best.val)
      ELSE oscs

\* mutant: the width follows the viewport only
NeededWidth_ViewportOnly(vw, n) ==
  vw

\* mutant: Math.min in place of Math.max
NeededWidth_Min(vw, n) ==
  IF vw <= n * COL_WIDTH THEN vw ELSE n * COL_WIDTH

\* Math.max(window.innerWidth, emotionHistory.length * COL_WIDTH)
NeededWidth(vw, n) ==
  Max(vw, n * COL_WIDTH)

----------------------------------------------------------------------------
(* The renderer's pure parts *)

\* mutant: the bounds are swapped, lerp(b, a, value)
Lerp_Inverted(a, b, value) ==
  10 * b - ((b - a) * value) \div 10

\* p5 lerp(a, b, value), in tenths
Lerp(a, b, value) ==
  10 * a + ((b - a) * value) \div 10

\* getEmotionColor(name, value): <<hue, saturation, brightness>>
getEmotionColor(name, value) ==
  LET b == Lerp(10, 100, value)
  IN  CASE name = "neutral"   -> << 0, 0, Lerp(30, 80, value) >>
        [] name = "happy"     -> << 60, 100, b >>
        [] name = "sad"       -> << 220, 80, b >>
        [] name = "angry"     -> << 0, 100, b >>
        [] name = "fearful"   -> << 280, 80, b >>
        [] name = "disgusted" -> << 130, 80, b >>
        [] name = "surprised" -> << 180, 80, b >>
        [] OTHER              -> << 0, 0, b >>

\* mutant: the loop over the time steps starts at t = 1
Cells_SkipFirst(history, h) ==
  { [ t |-> t, e |-> e, x |-> t * COL_WIDTH, y |-> e * h, w |-> COL_WIDTH, h |-> h,
      col |-> getEmotionColor(EMOTIONS[e + 1], OrZero(history[t + 1], EMOTIONS[e + 1])) ]
    : t \in 1..(Len(history) - 1), e \in 0..(Len(EMOTIONS) - 1) }

\* the rect() calls of one draw: x in pixels, y and h in sevenths of a pixel
Cells(history, h) ==
  { [ t |-> t, e |-> e, x |-> t * COL_WIDTH, y |-> e * h, w |-> COL_WIDTH, h |-> h,
      col |-> getEmotionColor(EMOTIONS[e + 1], OrZero(history[t + 1], EMOTIONS[e + 1])) ]
    : t \in 0..(Len(history) - 1), e \in 0..(Len(EMOTIONS) - 1) }

\* Math.max(0, width - window.innerWidth)
MaxScrollX(w, vw) ==
  Max(0, w - vw)

\* a frame that shows the background only
Background ==
  [ bg |-> TRUE, cells |-> {}, lines |-> {}, scrolled |-> FALSE ]

\* before the first draw nothing has been painted
NoFrame ==
  [ bg |-> FALSE, cells |-> {}, lines |-> {}, scrolled |-> FALSE ]

\* the line() calls of one draw: for (let e = 1; e < EMOTIONS.length; e++)
Separators(w, h) ==
  { [ y |-> e * h, x1 |-> 0, x2 |-> w ] : e \in 1..(Len(EMOTIONS) - 1) }

----------------------------------------------------------------------------
(* Initial state: the script has been evaluated, nothing has run yet *)

Init ==
  /\ cam = "loading"
  /\ timers = 0
  /\ ticksFired = 0
  /\ inflight = 0
  /\ emotionHistory = << >>
  /\ audioInitialized = FALSE
  /\ cues = << >>
  /\ setupDone = FALSE
  /\ \E v \in Viewports : innerWidth = v[1] /\ innerHeight = v[2]
  /\ canvasHeight = 0
  /\ width = 0
  /\ height = 0
  /\ frame = NoFrame
  /\ scrollX = 0
  /\ awaiting = {}
  /\ appendedBy = << >>

----------------------------------------------------------------------------
(* Camera start-up *)

\* Promise.all([...]).then(startVideo): the models are loaded, the camera is requested
startVideo ==
  /\ cam = "loading"
  /\ cam' = "requesting"
  /\ UNCHANGED << timers, ticksFired, inflight, emotionHistory, audioInitialized,
                  cues, setupDone, innerWidth, innerHeight, canvasHeight, width,
                  height, frame, scrollX >>
  /\ UNCHANGED ids

\* getUserMedia succeeds: video.srcObject = stream
CameraGranted ==
  /\ cam = "requesting"
  /\ cam' = "stream"
  /\ UNCHANGED << timers, ticksFired, inflight, emotionHistory, audioInitialized,
                  cues, setupDone, innerWidth, innerHeight, canvasHeight, width,
                  height, frame, scrollX >>
  /\ UNCHANGED ids

\* getUserMedia fails: err => console.error(err)
CameraFailed ==
  /\ cam = "requesting"
  /\ cam' = "failed"
  /\ UNCHANGED << timers, ticksFired, inflight, emotionHistory, audioInitialized,
                  cues, setupDone, innerWidth, innerHeight, canvasHeight, width,
                  height, frame, scrollX >>
  /\ UNCHANGED ids

\* mutant: the timer is started whether or not a stream plays
PlayEvent_Unguarded ==
  /\ timers < MaxTimers
  /\ timers' = timers + 1
  /\ UNCHANGED << cam, ticksFired, inflight, emotionHistory, audioInitialized,
                  cues, setupDone, innerWidth, innerHeight, canvasHeight, width,
                  height, frame, scrollX >>
  /\ UNCHANGED ids

\* video 'play' listener: setInterval(async () => {...}, SAMPLE_INTERVAL)
PlayEvent ==
  /\ cam = "stream"
  /\ timers < MaxTimers
  /\ timers' = timers + 1
  /\ UNCHANGED << cam, ticksFired, inflight, emotionHistory, audioInitialized,
                  cues, setupDone, innerWidth, innerHeight, canvasHeight, width,
                  height, frame, scrollX >>
  /\ UNCHANGED ids

----------------------------------------------------------------------------
(* The sampling callback *)

\* a timer fires: the callback runs up to its await and suspends
TimerFire ==
  /\ timers > 0
  /\ ticksFired < MaxTicks
  /\ inflight < MaxInflight
  /\ ticksFired' = ticksFired + 1
  /\ inflight' = inflight + 1
  /\ UNCHANGED << cam, timers, emotionHistory, audioInitialized, cues, setupDone,
                  innerWidth, innerHeight, canvasHeight, width, height, frame,
                  scrollX >>

\* the await settles with r: the rest of the callback runs without interruption
TickDone(r) ==
  /\ inflight > 0
  /\ inflight' = inflight - 1
  /\ LET snapshot == SnapshotOf(r)
         neededWidth == NeededWidth(innerWidth, Len(emotionHistory) + 1)
     IN  /\ emotionHistory' = Push(emotionHistory, snapshot)
         /\ cues' = CueStep(cues, audioInitialized, snapshot)
         /\ IF setupDone /\ width # neededWidth
            THEN width' = neededWidth /\ height' = canvasHeight
            ELSE UNCHANGED << width, height >>
  /\ UNCHANGED << cam, timers, ticksFired, audioInitialized, setupDone, innerWidth,
                  innerHeight, canvasHeight, frame, scrollX >>

\* Spec: a timer fires, the callbacks are counted only
Fire ==
  TimerFire /\ UNCHANGED ids

\* Spec: some callback at the await continues with some raw result
Tick ==
  /\ \E r \in RawResults : TickDone(r)
  /\ UNCHANGED ids

----------------------------------------------------------------------------
(* p5 callbacks *)

setup ==
  /\ ~setupDone
  /\ setupDone' = TRUE
  /\ canvasHeight' = innerHeight
  /\ width' = innerWidth
  /\ height' = innerHeight
  /\ UNCHANGED << cam, timers, ticksFired, inflight, emotionHistory,
                  audioInitialized, cues, innerWidth, innerHeight, frame, scrollX >>
  /\ UNCHANGED ids

mousePressed ==
  /\ setupDone
  /\ audioInitialized' = TRUE
  /\ UNCHANGED << cam, timers, ticksFired, inflight, emotionHistory, cues,
                  setupDone, innerWidth, innerHeight, canvasHeight, width, height,
                  frame, scrollX >>
  /\ UNCHANGED ids

draw ==
  /\ setupDone
  /\ IF Len(emotionHistory) = 0
     THEN /\ frame' = Background
          /\ UNCHANGED scrollX
     ELSE /\ frame' = [ bg |-> TRUE,
                        cells |-> Cells(emotionHistory, height),
                        lines |-> Separators(width, height),
                        scrolled |-> TRUE ]
          /\ scrollX' = MaxScrollX(width, innerWidth)
  /\ UNCHANGED << cam, timers, ticksFired, inflight, emotionHistory,
                  audioInitialized, cues, setupDone, innerWidth, innerHeight,
                  canvasHeight, width, height >>
  /\ UNCHANGED ids

\* mutant: a resize of the window starts the map afresh
windowResized_Reset ==
  /\ setupDone
  /\ canvasHeight' = innerHeight
  /\ width' = NeededWidth(innerWidth, 0)
  /\ height' = innerHeight
  /\ emotionHistory' = << >>
  /\ UNCHANGED << cam, timers, ticksFired, inflight, audioInitialized, cues,
                  setupDone, innerWidth, innerHeight, frame, scrollX >>
  /\ UNCHANGED ids

windowResized ==
  /\ setupDone
  /\ canvasHeight' = innerHeight
  /\ width' = NeededWidth(innerWidth, Len(emotionHistory))
  /\ height' = innerHeight
  /\ UNCHANGED << cam, timers, ticksFired, inflight, emotionHistory,
                  audioInitialized, cues, setupDone, innerWidth, innerHeight,
                  frame, scrollX >>
  /\ UNCHANGED ids

\* the user resizes the browser window
ViewportChange ==
  /\ \E v \in Viewports :
       /\ v # << innerWidth, innerHeight >>
       /\ innerWidth' = v[1]
       /\ innerHeight' = v[2]
  /\ UNCHANGED << cam, timers, ticksFired, inflight, emotionHistory,
                  audioInitialized, cues, setupDone, canvasHeight, width, height,
                  frame, scrollX >>
  /\ UNCHANGED ids

----------------------------------------------------------------------------

Next ==
  \/ startVideo
  \/ CameraGranted
  \/ CameraFailed
  \/ PlayEvent
  \/ Fire
  \/ Tick
  \/ setup
  \/ mousePressed
  \/ draw
  \/ windowResized
  \/ ViewportChange


Spec ==
  Init /\ [][Next]_vars

----------------------------------------------------------------------------
(* One sampling tick over a wide set of raw results, from the state after   *)
(* setup, camera start and the first 'play' event.                          *)

InitCue ==
  /\ cam = "stream"
  /\ timers = 1
  /\ ticksFired = 0
  /\ inflight = 0
  /\ emotionHistory = << >>
  /\ audioInitialized \in BOOLEAN
  /\ cues = << >>
  /\ setupDone = TRUE
  /\ \E v \in Viewports : innerWidth = v[1] /\ innerHeight = v[2]
  /\ canvasHeight = innerHeight
  /\ width = innerWidth
  /\ height = innerHeight
  /\ frame = NoFrame
  /\ scrollX = 0
  /\ awaiting = {}
  /\ appendedBy = << >>

FirstFire ==
  ticksFired = 0 /\ TimerFire /\ UNCHANGED ids

\* every raw result over WideValues, with any subset of the labels absent
WideTick ==
  /\ \/ \E r \in FailResults : TickDone(r)
     \/ \E S \in SUBSET Names : \E e \in [S -> WideValues] : TickDone(Detected(e))
  /\ UNCHANGED ids

NextCue ==
  \/ FirstFire
  \/ WideTick

SpecCue ==
  InitCue /\ [][NextCue]_vars

----------------------------------------------------------------------------
(* Vocabulary of the properties *)

ZeroSample ==
  [ n \in Names |-> 0 ]

\* the largest intensity of a Sample
MaxVal(sample) ==
  CHOOSE m \in { sample[n] : n \in Names } : \A n \in Names : sample[n] <= m

\* the position in EMOTIONS of the first label that holds the maximum
FirstMaxIndex(sample) ==
  CHOOSE i \in 1..Len(EMOTIONS) :
    /\ sample[EMOTIONS[i]] = MaxVal(sample)
    /\ \A j \in 1..(i - 1) : sample[EMOTIONS[j]] # MaxVal(sample)

Last(seq) ==
  seq[Len(seq)]

\* this step is the completion of a sampling callback
TickStep ==
  inflight' = inflight - 1

IsPrefix(s, t) ==
  Len(s) <= Len(t) /\ SubSeq(t, 1, Len(s)) = s

----------------------------------------------------------------------------
(* C1: every Sample in History has all 7 labels with a value in [0,1], and  *)
(* a label absent from the raw detection result is stored as 0.             *)

SampleWellFormed(sample) ==
  /\ DOMAIN sample = Names
  /\ \A n \in Names : sample[n] \in 0..100

AbsentStoredAsZero ==
  \A r \in RawResults :
    TickDone(r) =>
      /\ SampleWellFormed(Last(emotionHistory'))
      /\ \A n \in Names \ DOMAIN r.expressions : Last(emotionHistory')[n] = 0
      /\ \A n \in DOMAIN r.expressions : Last(emotionHistory')[n] = r.expressions[n]

C1_SamplesComplete ==
  /\ [](\A i \in 1..Len(emotionHistory) : SampleWellFormed(emotionHistory[i]))
  /\ [][AbsentStoredAsZero]_vars

\* a Sample built from a raw result without neutral is in History and has been drawn
C1_Witness ==
  /\ \E i \in 1..Len(emotionHistory) :
       emotionHistory[i]["sad"] = 50 /\ emotionHistory[i]["neutral"] = 0
  /\ frame.cells # {}

----------------------------------------------------------------------------
(* C2: the length of History equals the number of completed sampling ticks; *)
(* a completed tick appends exactly one Sample and no other step changes    *)
(* the length, so it never decreases.                                       *)

LengthStep ==
  IF TickStep
  THEN Len(emotionHistory') = Len(emotionHistory) + 1
  ELSE Len(emotionHistory') = Len(emotionHistory)

C2_LengthCountsTicks ==
  /\ [](Len(emotionHistory) = ticksFired - inflight)
  /\ [][LengthStep]_vars

\* two ticks have completed, between draws, a resize of the canvas and a mouse press
C2_Witness ==
  /\ ticksFired = 2 /\ inflight = 0 /\ Len(emotionHistory) = 2
  /\ frame.cells # {} /\ audioInitialized /\ width > innerWidth

----------------------------------------------------------------------------
(* C3: History is append-only: every step leaves the earlier History as a   *)
(* prefix of the later one.                                                 *)

C3_AppendOnly ==
  [][IsPrefix(emotionHistory, emotionHistory')]_vars

\* two different Samples are in History, a cue was emitted and a draw has painted them
C3_Witness ==
  /\ Len(emotionHistory) = 2 /\ emotionHistory[1] # emotionHistory[2]
  /\ Len(cues) >= 1 /\ Cardinality(frame.cells) = 2 * Len(EMOTIONS)

----------------------------------------------------------------------------
(* C4: a tick whose detection finds no face, has no expressions or throws   *)
(* appends one all-zero Sample, emits no cue, raises no error state, and    *)
(* leaves the timers running.                                               *)

FailedTickStep ==
  \A r \in FailResults :
    TickDone(r) =>
      /\ Len(emotionHistory') = Len(emotionHistory) + 1
      /\ Last(emotionHistory') = ZeroSample
      /\ cues' = cues
      /\ cam' = cam /\ cam' = "stream"
      /\ timers' = timers /\ timers' > 0

C4_FailureGivesZeros ==
  [][FailedTickStep]_vars

\* with audio unlocked a failed tick was followed by a tick that detected a face
C4_Witness ==
  /\ Len(emotionHistory) = 2
  /\ emotionHistory[1] = ZeroSample /\ emotionHistory[2]["happy"] = 90
  /\ Len(cues) = 1 /\ cues[1].name = "happy"

----------------------------------------------------------------------------
(* C5: with audio unlocked a tick creates exactly one cue when the maximum  *)
(* of its Sample is above 0.2 and none otherwise; nothing else creates or   *)
(* removes a cue, so the cues count the ticks above the threshold.          *)

CueCountStep ==
  /\ \A r \in RawResults :
       (audioInitialized /\ TickDone(r)) =>
         /\ IsPrefix(cues, cues')
         /\ Len(cues') = Len(cues) + (IF MaxVal(Last(emotionHistory')) > 20 THEN 1 ELSE 0)
  /\ ~TickStep => cues' = cues

C5_CueIffAboveThreshold ==
  [][CueCountStep]_vars

\* a Sample at 0.9 gave a cue, the next Sample at exactly 0.2 gave none
C5_Witness ==
  /\ Len(emotionHistory) = 2
  /\ MaxVal(emotionHistory[1]) = 90 /\ MaxVal(emotionHistory[2]) = 20
  /\ audioInitialized /\ Len(cues) = 1

----------------------------------------------------------------------------
(* C6: the cue of a Sample names the first label, in the order of EMOTIONS, *)
(* that holds the Sample's maximum, and carries that maximum as intensity.  *)

DominantStep ==
  /\ Len(cues') > Len(cues) =>
       /\ Last(cues').name = EMOTIONS[FirstMaxIndex(Last(emotionHistory'))]
       /\ Last(cues').intensity = MaxVal(Last(emotionHistory'))
  /\ (audioInitialized /\ TickStep /\ MaxVal(Last(emotionHistory')) > 20) =>
       Len(cues') = Len(cues) + 1

C6_FirstMaximumSelected ==
  [][DominantStep]_vars

\* sad and surprised tie at the maximum: the cue is for sad
C6_Witness ==
  /\ Len(emotionHistory) = 1 /\ Len(cues) = 1
  /\ emotionHistory[1]["sad"] = 90 /\ emotionHistory[1]["surprised"] = 90
  /\ emotionHistory[1]["neutral"] = 21
  /\ cues[1].name = "sad"

----------------------------------------------------------------------------
(* C7: a cue for label L with intensity i has frequency base(L) * (0.8 +    *)
(* 0.4 i) and loudness 0.05 + 0.25 i, base(L) from the table; a Sample with *)
(* happy = 0.9 and the rest 0 gives happy, 1020.8 Hz, 0.275.                *)

ClaimedBase ==
  [ neutral |-> 220, happy |-> 880, sad |-> 260, angry |-> 440,
    fearful |-> 600, disgusted |-> 320, surprised |-> 700 ]

HappyOnly ==
  [ n \in Names |-> IF n = "happy" THEN 90 ELSE 0 ]

C7_CueParameters ==
  /\ \A k \in 1..Len(cues) :
       /\ cues[k].name \in Names
       /\ cues[k].freq = ClaimedBase[cues[k].name] * (800 + 4 * cues[k].intensity)
       /\ cues[k].amp = 500 + 25 * cues[k].intensity
  /\ (audioInitialized /\ emotionHistory = << HappyOnly >>) =>
       cues = << [ name |-> "happy", intensity |-> 90, freq |-> 1020800, amp |-> 2750 ] >>

\* the Sample with happy = 0.9 alone has been appended with audio unlocked
C7_Witness ==
  /\ audioInitialized /\ emotionHistory = << HappyOnly >>
  /\ Len(cues) = 1 /\ cues[1].freq = 1020800

----------------------------------------------------------------------------
(* C8: no cue exists before the unlock; a tick before the unlock appends    *)
(* its Sample and drops its cue; the unlock replays nothing; the flag never *)
(* returns to false and a further mousePressed changes nothing.             *)

UnlockStep ==
  /\ (~audioInitialized /\ TickStep) =>
       cues' = cues /\ Len(emotionHistory') = Len(emotionHistory) + 1
  /\ audioInitialized' # audioInitialized => cues' = cues
  /\ Len(cues') > Len(cues) =>
       /\ TickStep /\ audioInitialized
       /\ Len(cues') = Len(cues) + 1
       /\ Last(cues').intensity = MaxVal(Last(emotionHistory'))
  /\ audioInitialized => audioInitialized'
  /\ (audioInitialized /\ mousePressed) => UNCHANGED vars

C8_NoCueBeforeUnlock ==
  /\ [](~audioInitialized => cues = << >>)
  /\ [][UnlockStep]_vars

\* the first Sample was above the threshold before the unlock; only the second has a cue
C8_Witness ==
  /\ audioInitialized /\ Len(emotionHistory) = 2
  /\ MaxVal(emotionHistory[1]) = 90 /\ MaxVal(emotionHistory[2]) = 100
  /\ Len(cues) = 1 /\ cues[1].intensity = 100

----------------------------------------------------------------------------
(* C9: after setup, a completed tick or a windowResized leaves the canvas   *)
(* at least max(viewportWidth, History length * 6) wide.                    *)

WidthStep ==
  (setupDone /\ (TickStep \/ windowResized)) =>
    /\ width' >= innerWidth'
    /\ width' >= Len(emotionHistory') * 6

----------------------------------------------------------------------------
(* C10: after a failed camera acquisition no timer is started, no tick      *)
(* runs, History and the cues stay empty and a draw paints the background   *)
(* only; the failure is final.                                              *)

IdleAfterFailure ==
  cam = "failed" =>
    /\ timers = 0 /\ ticksFired = 0 /\ inflight = 0
    /\ emotionHistory = << >> /\ cues = << >>
    /\ frame.cells = {} /\ frame.lines = {} /\ ~frame.scrolled /\ scrollX = 0

FailureStep ==
  cam = "failed" => cam' = "failed" /\ (draw => frame' = Background)

C10_CameraFailureIdle ==
  /\ []IdleAfterFailure
  /\ [][FailureStep]_vars

\* the camera failed, the mouse was pressed and a draw has painted the background
C10_Witness ==
  cam = "failed" /\ frame = Background /\ audioInitialized

----------------------------------------------------------------------------
(* A draw of a History of two Samples, every label of a Sample at the same  *)
(* intensity, from the state after setup and two completed ticks.           *)

ColorValues ==
  { 0, 1, 25, 50, 75, 99, 100 }

Uniform(v) ==
  [ n \in Names |-> v ]

InitColor ==
  /\ cam = "stream"
  /\ timers = 1
  /\ ticksFired = 2
  /\ inflight = 0
  /\ \E v1 \in ColorValues, v2 \in ColorValues :
       emotionHistory = << Uniform(v1), Uniform(v2) >>
  /\ audioInitialized = FALSE
  /\ cues = << >>
  /\ setupDone = TRUE
  /\ \E v \in Viewports : innerWidth = v[1] /\ innerHeight = v[2]
  /\ canvasHeight = innerHeight
  /\ width = NeededWidth(innerWidth, 2)
  /\ height = innerHeight
  /\ frame = NoFrame
  /\ scrollX = 0
  /\ awaiting = {}
  /\ appendedBy = << >>

NextColor ==
  draw

SpecColor ==
  InitColor /\ [][NextColor]_vars

----------------------------------------------------------------------------
(* C11: the brightness of a cell is the linear interpolation between the    *)
(* label's bounds (30 to 80 for neutral, 10 to 100 otherwise), so it stays  *)
(* within the bounds and does not decrease when the intensity grows; equal  *)
(* (label, intensity) give equal colors.  Brightness is in tenths.          *)

ClaimedBrightness(name, v) ==
  IF name = "neutral" THEN 300 + 5 * v ELSE 100 + 9 * v

CellValue(c) ==
  emotionHistory[c.t + 1][EMOTIONS[c.e + 1]]

C11_BrightnessInterpolated ==
  \A c \in frame.cells :
    /\ c.col[3] = ClaimedBrightness(EMOTIONS[c.e + 1], CellValue(c))
    /\ IF c.e = 0 THEN c.col[3] >= 300 /\ c.col[3] <= 800
       ELSE c.col[3] >= 100 /\ c.col[3] <= 1000
    /\ \A d \in frame.cells :
         d.e = c.e =>
           /\ CellValue(c) <= CellValue(d) => c.col[3] <= d.col[3]
           /\ CellValue(c) = CellValue(d) => c.col = d.col

\* a draw has painted a column at 0.25 and a column at 0.75
C11_Witness ==
  /\ Len(emotionHistory) = 2
  /\ emotionHistory[1]["happy"] = 25 /\ emotionHistory[2]["happy"] = 75
  /\ Cardinality(frame.cells) = 14

----------------------------------------------------------------------------
(* The sampling callbacks with their numbers, from the state after camera   *)
(* start and the first 'play' event, with setup before, between or after    *)
(* the ticks.  A detection that was started settles eventually; the         *)
(* callbacks at the await continue in any order.                            *)

InitOrder ==
  /\ cam = "stream"
  /\ timers = 1
  /\ ticksFired = 0
  /\ inflight = 0
  /\ emotionHistory = << >>
  /\ audioInitialized \in BOOLEAN
  /\ cues = << >>
  /\ setupDone = FALSE
  /\ \E v \in Viewports : innerWidth = v[1] /\ innerHeight = v[2]
  /\ canvasHeight = 0
  /\ width = 0
  /\ height = 0
  /\ frame = NoFrame
  /\ scrollX = 0
  /\ awaiting = {}
  /\ appendedBy = << >>

\* the raw results of the numbered callbacks: no face, a face above the
\* threshold, a face at the threshold
OrderResults ==
  { NoFace, Happy90, Exactly20 }

\* the timer fires: callback number ticksFired + 1 starts and suspends at its await
FireNumbered ==
  /\ TimerFire
  /\ awaiting' = awaiting \cup { ticksFired + 1 }
  /\ UNCHANGED appendedBy

\* the detection of callback id settles and the callback runs to its end
DoneNumbered(id) ==
  /\ id \in awaiting
  /\ \E r \in OrderResults : TickDone(r)
  /\ awaiting' = awaiting \ { id }
  /\ appendedBy' = Append(appendedBy, id)

DoneSome ==
  \E id \in 1..MaxTicks : DoneNumbered(id)

NextOrder ==
  \/ setup
  \/ FireNumbered
  \/ DoneSome
  \/ mousePressed
  \/ ViewportChange

SpecOrder ==
  /\ InitOrder
  /\ [][NextOrder]_vars
  /\ \A id \in 1..MaxTicks : WF_vars(DoneNumbered(id))

----------------------------------------------------------------------------
(* C12: at most one sampling callback is at its await at any time.          *)

C12_NoOverlap ==
  inflight <= 1

----------------------------------------------------------------------------
(* C17: at most one sampling timer is ever active, however often the 'play' *)
(* event fires.                                                              *)

C17_SingleTimer ==
  timers <= 1

----------------------------------------------------------------------------
(* C18: the Samples are in History in the order in which their callbacks    *)
(* fired.                                                                    *)

C18_FireOrderKept ==
  \A i \in 1..Len(appendedBy) : \A j \in 1..Len(appendedBy) :
    i < j => appendedBy[i] < appendedBy[j]

----------------------------------------------------------------------------
(* C13 as claimed: no sampling tick makes the canvas narrower, in any       *)
(* interleaving with viewport changes and windowResized.                    *)

InStep ==
  width = Max(innerWidth, Len(emotionHistory) * 6)

----------------------------------------------------------------------------
(* C14: after every draw of a non-empty History the scroll position is      *)
(* max(0, width - viewportWidth) and the newest column, from (n-1) * 6 to   *)
(* n * 6, lies inside [scrollX, scrollX + viewportWidth].                   *)

NewestColumnVisible ==
  /\ (Len(emotionHistory) - 1) * 6 >= scrollX
  /\ Len(emotionHistory) * 6 <= scrollX + innerWidth

C14_NewestColumnInView ==
  [][(draw /\ Len(emotionHistory) > 0) =>
       /\ scrollX' = Max(0, width' - innerWidth')
       /\ NewestColumnVisible']_vars

----------------------------------------------------------------------------
(* C15: draw leaves History, the unlock flag and the canvas size unchanged; *)
(* windowResized leaves History and the unlock flag unchanged; only the     *)
(* append of a sampling tick changes History.                               *)

ReadOnlyStep ==
  /\ draw => UNCHANGED << emotionHistory, audioInitialized, width, height >>
  /\ windowResized => UNCHANGED << emotionHistory, audioInitialized >>
  /\ emotionHistory' # emotionHistory =>
       TickStep /\ \E r \in RawResults : TickDone(r)

C15_RendererReadsOnly ==
  [][ReadOnlyStep]_vars

\* a draw painted two Samples at one height, then windowResized took the other height
C15_Witness ==
  /\ Len(emotionHistory) = 2 /\ audioInitialized
  /\ Cardinality(frame.cells) = 14
  /\ \E c \in frame.cells : c.h # height
  /\ height = innerHeight /\ canvasHeight = innerHeight

----------------------------------------------------------------------------
(* C16: a draw of an empty History paints the background, no cell, no line  *)
(* and does not scroll; a draw of n Samples paints exactly n * 7 cells, the *)
(* cell of time step t and label e at x = t * 6, y = e * (height / 7), in   *)
(* the color of the value of label e in Sample t.  y is in sevenths.        *)

DrawStep ==
  draw =>
    IF Len(emotionHistory) = 0
    THEN /\ frame'.bg /\ frame'.cells = {} /\ frame'.lines = {}
         /\ ~frame'.scrolled /\ scrollX' = scrollX
    ELSE /\ frame'.bg
         /\ Cardinality(frame'.cells) = Len(emotionHistory) * 7
         /\ \A t \in 0..(Len(emotionHistory) - 1) : \A e \in 0..6 :
              \E c \in frame'.cells :
                /\ c.t = t /\ c.e = e
                /\ c.x = t * 6 /\ c.y = e * height
                /\ c.col = getEmotionColor(EMOTIONS[e + 1],
                                           emotionHistory[t + 1][EMOTIONS[e + 1]])

C16_GridDrawn ==
  [][DrawStep]_vars

\* two different Samples have been painted on the taller canvas
C16_Witness ==
  /\ Len(emotionHistory) = 2 /\ emotionHistory[1] # emotionHistory[2]
  /\ height = 14
  /\ frame.cells = Cells(emotionHistory, 14)

----------------------------------------------------------------------------
(* C19 as claimed: every fired callback eventually appends exactly one      *)
(* Sample, and the step that appends it also evaluates the cue for that     *)
(* Sample and brings the canvas width to max(viewportWidth, n * 6).         *)

\* callback id has appended, once
Appended(id) ==
  Cardinality({ i \in 1..Len(appendedBy) : appendedBy[i] = id }) = 1

EventuallyAppends ==
  \A id \in 1..MaxTicks : (id \in awaiting) ~> (id \notin awaiting /\ Appended(id))

\* no callback appends twice and every Sample was appended by a callback
OneSampleEach ==
  /\ Len(emotionHistory) = Len(appendedBy)
  /\ \A i, j \in 1..Len(appendedBy) : appendedBy[i] = appendedBy[j] => i = j
  /\ \A i \in 1..Len(appendedBy) : appendedBy[i] \in 1..ticksFired \ awaiting

\* the cue for the Sample just appended: one tone when unlocked and above 0.2
CueEvaluated ==
  LET sample == Last(emotionHistory')
      i == FirstMaxIndex(sample)
  IN  IF audioInitialized /\ MaxVal(sample) > 20
      THEN /\ Len(cues') = Len(cues) + 1 /\ IsPrefix(cues, cues')
           /\ Last(cues').name = EMOTIONS[i]
           /\ Last(cues').freq = EMOTION_FREQS[EMOTIONS[i]] * (800 + 4 * MaxVal(sample))
      ELSE cues' = cues

WidthBrought ==
  width' = Max(innerWidth', Len(emotionHistory') * 6)

C19_TickCompletesEverything ==
  /\ EventuallyAppends
  /\ []OneSampleEach
  /\ [][TickStep =>
         /\ Len(emotionHistory') = Len(emotionHistory) + 1
         /\ CueEvaluated
         /\ WidthBrought]_vars

(* C19 as amended: every fired callback eventually appends exactly one      *)
(* Sample, and the step that appends it also evaluates the cue for that     *)
(* Sample and, once setup has run, brings the canvas width to               *)
(* max(viewportWidth, n * 6); before setup it leaves the width alone.       *)

C19_TickCompletes ==
  /\ EventuallyAppends
  /\ []OneSampleEach
  /\ [][TickStep =>
         /\ Len(emotionHistory') = Len(emotionHistory) + 1
         /\ CueEvaluated
         /\ IF setupDone THEN WidthBrought ELSE width' = width]_vars

\* both callbacks have completed after setup, the second with a cue and a wider canvas
C19_Witness ==
  /\ awaiting = {} /\ Len(appendedBy) = 2 /\ setupDone
  /\ Len(cues) >= 1 /\ Last(cues).name = EMOTIONS[FirstMaxIndex(Last(emotionHistory))]
  /\ innerWidth = 10 /\ width = 12

====
